---- MODULE Spec2Model ----
(***************************************************************************)
(* A model of jedisasm.py, the JEDEC disassembler for PAL16L8 / GAL16V8.   *)
(*                                                                         *)
(* Text is modelled as sequences of one-character strings.  fp.read(1) at  *)
(* the end of the file returns the empty string "", as in Python.          *)
(***************************************************************************)
EXTENDS Integers, Sequences, FiniteSets, TLC

VARIABLES
    script,     \* the JEDEC fields the file under test was written from
    input,      \* the characters of the JEDEC file (fp)
    tok,        \* jedec_commands: the generator's frame (phase, pos, buffer)
    cmds,       \* the commands jedec_commands has yielded so far
    eofReads,   \* number of fp.read(1) calls that returned "" (end of file)
    fusemap,    \* load_jedec's result / PALBase.fusemap
    status,     \* "ok", or the exception that ended main()
    pc,         \* position in main() / generate_printout()
    ctor,       \* device_type_map[device_name], the callable main() invoked
    device,     \* class of the constructed device instance, or "none"
    pin,        \* generate_printout: last pin handled by the first loop
    cfg,        \* generate_printout: index of the last macrocell handled
    eqns,       \* generate_printout: eqns of the last macrocell handled
    out,        \* the records handed to the printer / print(), in order
    writes,     \* term-decoder harness: fuses written so far
    termRes,    \* term-decoder harness: results of is_term_nonzero
    toggled     \* term-decoder harness: the fuse changed to 1, or -1

vars == <<script, input, tok, cmds, eofReads, fusemap, status, pc, ctor,
          device, pin, cfg, eqns, out, writes, termRes, toggled>>

parseVars == <<input, tok, cmds, eofReads>>
mainVars  == <<fusemap, status, pc, ctor, device, pin, cfg, eqns, out>>
termVars  == <<writes, termRes, toggled>>

-----------------------------------------------------------------------------
(* Characters *)

ETX == "ETX"        \* the character "\x03"
EOFCH == ""         \* what fp.read(1) returns at the end of the file
STAR == "*"
SP == " "
CR == "\r"
LF == "\n"
TAB == "\t"

IsSpace(ch) == ch \in {SP, CR, LF, TAB}

DigitChars == <<"0", "1", "2", "3", "4", "5", "6", "7", "8", "9">>

IsDigit(ch) == \E i \in 1..10 : DigitChars[i] = ch

DigitVal(ch) == (CHOOSE i \in 1..10 : DigitChars[i] = ch) - 1

\* the decimal digits of n ("%d" % n)
RECURSIVE Dec(_)
Dec(n) == IF n < 10 THEN <<DigitChars[n + 1]>> ELSE Dec(n \div 10) \o <<DigitChars[(n % 10) + 1]>>

RECURSIVE LStrip(_)
LStrip(s) ==
    IF s = <<>> THEN <<>>
    ELSE IF IsSpace(Head(s)) THEN LStrip(Tail(s)) ELSE s

RECURSIVE RStrip(_)
RStrip(s) ==
    IF s = <<>> THEN <<>>
    ELSE IF IsSpace(s[Len(s)]) THEN RStrip(SubSeq(s, 1, Len(s) - 1)) ELSE s

StartsWith(s, p) == Len(s) >= Len(p) /\ SubSeq(s, 1, Len(p)) = p

-----------------------------------------------------------------------------
(* jedec_commands(fp): one step is one fp.read(1) and what follows it up to *)
(* the next read, yield or return.                                          *)

FpRead(text, pos) == IF pos < Len(text) THEN text[pos + 1] ELSE EOFCH

FpAdvance(text, pos) == IF pos < Len(text) THEN pos + 1 ELSE pos

\* "if ch in ("\\r", "\\n"): ch = " ""
FoldChar(ch) == IF ch \in {CR, LF} THEN SP ELSE ch

TokInit == [phase |-> "preamble", pos |-> 0, buffer |-> <<>>]

\* s.yield: <<>> or <<command>>, the value yielded by this step
\* a read of "" inside a command appends "" to the buffer and reads again
TokStep(text, t) ==
    LET ch == FpRead(text, t.pos)
        np == FpAdvance(text, t.pos)
    IN  IF t.phase = "preamble"
        THEN IF ch = STAR
             THEN [tok |-> [phase |-> "command", pos |-> np, buffer |-> <<>>],
                   yield |-> <<>>]
             ELSE IF ch = EOFCH
             THEN [tok |-> [phase |-> "returned", pos |-> np, buffer |-> <<>>],
                   yield |-> <<>>]
             ELSE [tok |-> [t EXCEPT !.pos = np], yield |-> <<>>]
        ELSE IF ch = STAR
             THEN [tok |-> [phase |-> "command", pos |-> np, buffer |-> <<>>],
                   yield |-> <<LStrip(t.buffer)>>]
             ELSE IF ch = ETX
             THEN [tok |-> [phase |-> "returned", pos |-> np, buffer |-> t.buffer],
                   yield |-> <<>>]
             ELSE [tok |-> [phase |-> "command", pos |-> np,
                            buffer |-> IF ch = EOFCH THEN t.buffer
                                       ELSE Append(t.buffer, FoldChar(ch))],
                   yield |-> <<>>]

\* the whole generator, run to its return, one command per recursion: a
\* command ends at the next "*"; ETX before it ends the generator; with
\* neither left, the end of the file is read inside a command and the loop
\* never ends (hang)
RECURSIVE CommandsFrom(_, _, _)
CommandsFrom(text, pos, acc) ==
    LET stops == {i \in (pos + 1)..Len(text) : text[i] \in {STAR, ETX}}
    IN  IF stops = {} THEN [hang |-> TRUE, cmds |-> acc]
        ELSE LET e == CHOOSE i \in stops : \A j \in stops : i <= j
             IN  IF text[e] = ETX THEN [hang |-> FALSE, cmds |-> acc]
                 ELSE CommandsFrom(text, e,
                          Append(acc, LStrip([i \in 1..(e - pos - 1) |->
                                                 FoldChar(text[pos + i])])))

JedecCommands(text) ==
    LET stars == {i \in 1..Len(text) : text[i] = STAR}
    IN  IF stars = {} THEN [hang |-> FALSE, cmds |-> <<>>]
        ELSE CommandsFrom(text, CHOOSE i \in stars : \A j \in stars : i <= j, <<>>)

-----------------------------------------------------------------------------
(* load_jedec(fp) *)

None == -1

\* int(s, 10) for the texts of the model: optional surrounding whitespace,
\* then decimal digits only; anything else is a ValueError
RECURSIVE DigitsValue(_, _)
DigitsValue(s, acc) ==
    IF s = <<>> THEN acc ELSE DigitsValue(Tail(s), 10 * acc + DigitVal(Head(s)))

ParseInt(s) ==
    LET t == LStrip(RStrip(s))
    IN  IF t # <<>> /\ \A i \in 1..Len(t) : IsDigit(t[i])
        THEN [ok |-> TRUE, val |-> DigitsValue(t, 0)]
        ELSE [ok |-> FALSE, val |-> 0]

\* s.split(maxsplit=1): <<>>, <<word>> or <<word, rest>>
RECURSIVE TakeWord(_)
TakeWord(s) ==
    IF s = <<>> \/ IsSpace(Head(s)) THEN <<>> ELSE <<Head(s)>> \o TakeWord(Tail(s))

SplitOnce(s) ==
    LET a    == LStrip(s)
        w    == TakeWord(a)
        rest == LStrip(SubSeq(a, Len(w) + 1, Len(a)))
    IN  IF w = <<>> THEN <<>>
        ELSE IF rest = <<>> THEN <<w>>
        ELSE <<w, rest>>

\* data.replace(" ", "")
RemoveSpaces(s) == SelectSeq(s, LAMBDA ch : ch # SP)

\* lines 41-48: the first loop, over the commands in file order
RECURSIVE CollectCommands(_, _)
CollectCommands(cs, st) ==
    IF cs = <<>> \/ st.err # "ok" THEN st
    ELSE LET cmd == Head(cs)
         IN  IF StartsWith(cmd, <<"Q", "F">>)
             THEN LET v == ParseInt(SubSeq(cmd, 3, Len(cmd)))
                  IN  CollectCommands(Tail(cs),
                          IF v.ok THEN [st EXCEPT !.num_fuses = v.val]
                          ELSE [st EXCEPT !.err = "ValueError"])
             ELSE IF StartsWith(cmd, <<"F">>)
             THEN LET v == ParseInt(SubSeq(cmd, 2, Len(cmd)))
                  IN  CollectCommands(Tail(cs),
                          IF v.ok THEN [st EXCEPT !.default = v.val]
                          ELSE [st EXCEPT !.err = "ValueError"])
             ELSE IF StartsWith(cmd, <<"L">>)
             THEN CollectCommands(Tail(cs),
                      [st EXCEPT !.fuse_list = Append(@, SubSeq(cmd, 2, Len(cmd)))])
             ELSE CollectCommands(Tail(cs), st)

\* lines 54-55: fusemap[fuse] = int(state) for the digits of one L field
RECURSIVE WriteDigits(_, _, _)
WriteDigits(r, pos, data) ==
    IF data = <<>> \/ r.err # "ok" THEN r
    ELSE IF ~IsDigit(Head(data)) THEN [r EXCEPT !.err = "ValueError"]
    ELSE IF pos \notin DOMAIN r.fusemap THEN [r EXCEPT !.err = "IndexError"]
    ELSE WriteDigits([r EXCEPT !.fusemap[pos] = DigitVal(Head(data))],
                     pos + 1, Tail(data))

\* lines 50-55: the second loop, over the L fields in file order
RECURSIVE ApplyFuseListLastFirst(_, _)
ApplyFuseListLastFirst(fl, r) ==
    IF fl = <<>> \/ r.err # "ok" THEN r
    ELSE LET parts == SplitOnce(fl[Len(fl)])
         IN  IF Len(parts) < 2 THEN [r EXCEPT !.err = "ValueError"]
             ELSE LET data == RemoveSpaces(parts[2])
                      p    == ParseInt(parts[1])
                  IN  IF ~p.ok THEN [r EXCEPT !.err = "ValueError"]
                      ELSE ApplyFuseListLastFirst(SubSeq(fl, 1, Len(fl) - 1),
                                                  WriteDigits(r, p.val, data))

RECURSIVE ApplyFuseList(_, _)
ApplyFuseList(fl, r) ==
    IF fl = <<>> \/ r.err # "ok" THEN r
    ELSE LET parts == SplitOnce(Head(fl))
         IN  IF Len(parts) < 2 THEN [r EXCEPT !.err = "ValueError"]
             ELSE LET data == RemoveSpaces(parts[2])
                      p    == ParseInt(parts[1])
                  IN  IF ~p.ok THEN [r EXCEPT !.err = "ValueError"]
                      ELSE ApplyFuseList(Tail(fl), WriteDigits(r, p.val, data))

\* the result of load_jedec: [err, fusemap]; err is "ok", the exception
\* raised, or "hang" when jedec_commands never returns
LoadJedec(text) ==
    LET run == JedecCommands(text)
    IN  IF run.hang THEN [err |-> "hang", fusemap |-> <<>>]
        ELSE LET st == CollectCommands(run.cmds,
                           [num_fuses |-> None, default |-> 0,
                            fuse_list |-> <<>>, err |-> "ok"])
             IN  IF st.err # "ok" THEN [err |-> st.err, fusemap |-> <<>>]
                 ELSE IF st.num_fuses = None THEN [err |-> "TypeError", fusemap |-> <<>>]
                 ELSE LET r == ApplyFuseList(st.fuse_list,
                                  [err |-> "ok",
                                   fusemap |-> [i \in 0..(st.num_fuses - 1) |-> st.default]])
                      IN  IF r.err = "ok" THEN r ELSE [err |-> r.err, fusemap |-> <<>>]

-----------------------------------------------------------------------------
(* Term decoder.  indices is the pair (first fuse, one past the last fuse). *)

\* a step of 1 instead of 2: fuses paired across column boundaries
IsTermNonzeroStepOne(fm, indices) ==
    ~\E i \in indices[1]..(indices[2] - 2) : fm[i] = 0 /\ fm[i + 1] = 0

IsTermNonzero(fm, indices) ==
    ~\E i \in {j \in indices[1]..(indices[2] - 1) : (j - indices[1]) % 2 = 0} :
          fm[i] = 0 /\ fm[i + 1] = 0

RECURSIVE CollectFrom(_, _, _)
CollectFrom(fm, indices, i) ==
    IF i >= indices[2] - indices[1] THEN <<>>
    ELSE (IF fm[indices[1] + i] = 0 THEN <<i>> ELSE <<>>) \o CollectFrom(fm, indices, i + 1)

CollectAndTerms(fm, indices) == [tag |-> "AND", items |-> CollectFrom(fm, indices, 0)]

-----------------------------------------------------------------------------
(* Device models.  A device is named by its class: "P16L8", "G16V8MA",     *)
(* "G16V8MS" or "G16V8AS".                                                  *)

inverted(x) == IF Head(x) = "!" THEN Tail(x) ELSE <<"!">> \o x

\* "PIN%02d" % x
PinLabel(x) == <<"P", "I", "N">> \o (IF x < 10 THEN <<"0">> \o Dec(x) ELSE Dec(x))

pin_count == 20

\* PALBase.__init__ with pinmap None (no .pin file beside the JEDEC file)
pinmap == [x \in 1..pin_count |-> PinLabel(x)]

get_pin_name(p) == pinmap[p]

\* the macrocell tables: the same pins and rows for P16L8 and G16V8xx, and
\* the AC1 and XOR fuses for G16V8xx only
OLMC(p, oe_fuses, first_term, end_terms, ac1_fuse, xor_fuse) ==
    [pin |-> p, oe_fuses |-> oe_fuses,
     terms_fuses |-> [k \in 1..((end_terms - first_term) \div 32) |->
                          <<first_term + 32 * (k - 1), first_term + 32 * k>>],
     ac1_fuse |-> ac1_fuse, xor_fuse |-> xor_fuse]

P16L8_macrocell_config ==
    << OLMC(19, <<   0,   32>>,   32,  256, None, None),
       OLMC(18, << 256,  288>>,  288,  512, None, None),
       OLMC(17, << 512,  544>>,  544,  768, None, None),
       OLMC(16, << 768,  800>>,  800, 1024, None, None),
       OLMC(15, <<1024, 1056>>, 1056, 1280, None, None),
       OLMC(14, <<1280, 1312>>, 1312, 1536, None, None),
       OLMC(13, <<1536, 1568>>, 1568, 1792, None, None),
       OLMC(12, <<1792, 1824>>, 1824, 2048, None, None) >>

G16V8xx_macrocell_config ==
    << OLMC(19, <<   0,   32>>,   32,  256, 2120, 2048),
       OLMC(18, << 256,  288>>,  288,  512, 2121, 2049),
       OLMC(17, << 512,  544>>,  544,  768, 2122, 2050),
       OLMC(16, << 768,  800>>,  800, 1024, 2123, 2051),
       OLMC(15, <<1024, 1056>>, 1056, 1280, 2124, 2052),
       OLMC(14, <<1280, 1312>>, 1312, 1536, 2125, 2053),
       OLMC(13, <<1536, 1568>>, 1568, 1792, 2126, 2054),
       OLMC(12, <<1792, 1824>>, 1824, 2048, 2127, 2055) >>

macrocell_config(dev) ==
    IF dev = "P16L8" THEN P16L8_macrocell_config ELSE G16V8xx_macrocell_config

\* "for config in self.macrocell_config: if config.pin == pin: break":
\* the index of the first macrocell of the pin, 0 when the loop finds none
FindConfig(dev, p) ==
    LET t == macrocell_config(dev)
        hits == {k \in 1..Len(t) : t[k].pin = p}
    IN  IF hits = {} THEN 0 ELSE CHOOSE k \in hits : \A j \in hits : k <= j

\* "not x" of a Python int
Not(x) == x = 0

P16L8_is_out_inverted(fm, p) ==
    LET k == FindConfig("P16L8", p)
    IN  IF k = 0 THEN FALSE
        ELSE IsTermNonzero(fm, P16L8_macrocell_config[k].oe_fuses)

\* the XOR fuse left out of the test
G16V8MA_is_out_inverted_NoXor(fm, p) ==
    LET k == FindConfig("G16V8MA", p)
    IN  IF k = 0 THEN FALSE
        ELSE IsTermNonzero(fm, G16V8xx_macrocell_config[k].oe_fuses)

G16V8MA_is_out_inverted(fm, p) ==
    LET k == FindConfig("G16V8MA", p)
    IN  IF k = 0 THEN FALSE
        ELSE /\ IsTermNonzero(fm, G16V8xx_macrocell_config[k].oe_fuses)
             /\ Not(fm[G16V8xx_macrocell_config[k].xor_fuse])

G16V8MS_is_out_inverted(fm, p) ==
    LET k == FindConfig("G16V8MS", p)
    IN  IF k = 0 THEN FALSE
        ELSE /\ Not(fm[G16V8xx_macrocell_config[k].ac1_fuse])
             /\ Not(fm[G16V8xx_macrocell_config[k].xor_fuse])

G16V8AS_is_out_inverted(fm, p) ==
    LET k == FindConfig("G16V8AS", p)
    IN  IF k = 0 THEN FALSE
        ELSE /\ Not(fm[G16V8xx_macrocell_config[k].ac1_fuse])
             /\ Not(fm[G16V8xx_macrocell_config[k].xor_fuse])

is_out_inverted(dev, fm, p) ==
    IF dev = "P16L8" THEN P16L8_is_out_inverted(fm, p)
    ELSE IF dev = "G16V8MA" THEN G16V8MA_is_out_inverted(fm, p)
    ELSE IF dev = "G16V8MS" THEN G16V8MS_is_out_inverted(fm, p)
    ELSE G16V8AS_is_out_inverted(fm, p)

\* get_input_map: the pin of each of the 16 columns; the pins whose
\* polarity is is_out_inverted(pin), the others being False
P16L8_input_pins == <<2, 1, 3, 18, 4, 17, 5, 16, 6, 15, 7, 14, 8, 13, 9, 11>>
P16L8_feedback_pins == {18, 17, 16, 15, 14, 13}

G16V8MA_input_pins == <<2, 1, 3, 18, 4, 17, 5, 16, 6, 15, 7, 14, 8, 13, 9, 11>>
G16V8MA_feedback_pins == {18, 17, 16, 15, 14, 13}

G16V8MS_input_pins == <<2, 19, 3, 18, 4, 17, 5, 16, 6, 15, 7, 14, 8, 13, 9, 12>>
G16V8MS_feedback_pins == {19, 18, 17, 16, 15, 14, 13, 12}

G16V8AS_input_pins == <<2, 1, 3, 19, 4, 18, 5, 17, 6, 14, 7, 13, 8, 12, 9, 11>>
G16V8AS_feedback_pins == {19, 18, 17, 14, 13, 12}

get_input_map(dev, fm) ==
    LET pins == IF dev = "P16L8" THEN P16L8_input_pins
                ELSE IF dev = "G16V8MA" THEN G16V8MA_input_pins
                ELSE IF dev = "G16V8MS" THEN G16V8MS_input_pins
                ELSE G16V8AS_input_pins
        fb   == IF dev = "P16L8" THEN P16L8_feedback_pins
                ELSE IF dev = "G16V8MA" THEN G16V8MA_feedback_pins
                ELSE IF dev = "G16V8MS" THEN G16V8MS_feedback_pins
                ELSE G16V8AS_feedback_pins
    IN  [c \in 1..Len(pins) |->
            [pin |-> pins[c],
             inv |-> IF pins[c] \in fb THEN is_out_inverted(dev, fm, pins[c]) ELSE FALSE]]

\* the complement name first in every pair
get_input_names_ComplementFirst(dev, fm) ==
    LET m == get_input_map(dev, fm)
    IN  [i \in 1..(2 * Len(m)) |->
            LET e == m[(i + 1) \div 2]
                name == get_pin_name(e.pin)
            IN  IF i % 2 = 1 THEN inverted(name) ELSE name]

\* PALBase.get_input_names: names[i + 1] here is names[i] in the source
get_input_names(dev, fm) ==
    LET m == get_input_map(dev, fm)
    IN  [i \in 1..(2 * Len(m)) |->
            LET e == m[(i + 1) \div 2]
                name == get_pin_name(e.pin)
            IN  IF e.inv
                THEN (IF i % 2 = 1 THEN inverted(name) ELSE name)
                ELSE (IF i % 2 = 1 THEN name ELSE inverted(name))]

ORList(items) == [tag |-> "OR", items |-> items]

Eqn(name, items) == [name |-> name, items |-> items]

\* "if is_term_nonzero(...): terms = collect_and_terms(...); if terms: ...":
\* the row's ANDList when the row is live and the list is not empty
RowTerms(fm, indices) ==
    IF IsTermNonzero(fm, indices)
    THEN LET terms == CollectAndTerms(fm, indices)
         IN  IF terms.items # <<>> THEN <<terms>> ELSE <<>>
    ELSE <<>>

\* "for term_fuses in config.terms_fuses: ... d_terms.append(terms)"
RECURSIVE DTerms(_, _)
DTerms(fm, rows) ==
    IF rows = <<>> THEN <<>> ELSE RowTerms(fm, Head(rows)) \o DTerms(fm, Tail(rows))

DotOE == <<".", "o", "e">>
DotD == <<".", "d">>

P16L8_get_macrocell_eqns(fm, config) ==
    LET name == get_pin_name(config.pin)
        oe_terms == RowTerms(fm, config.oe_fuses)
        d_terms == DTerms(fm, config.terms_fuses)
    IN  (IF oe_terms # <<>> THEN <<Eqn(name \o DotOE, oe_terms[1])>> ELSE <<>>)
        \o (IF d_terms # <<>> THEN <<Eqn(name, ORList(d_terms))>> ELSE <<>>)

G16V8MA_get_macrocell_eqns(fm, config) ==
    LET name == get_pin_name(config.pin)
        oe_terms == RowTerms(fm, config.oe_fuses)
        d_terms == DTerms(fm, config.terms_fuses)
    IN  (IF oe_terms # <<>> THEN <<Eqn(name \o DotOE, oe_terms[1])>> ELSE <<>>)
        \o (IF d_terms # <<>> THEN <<Eqn(name, ORList(d_terms))>> ELSE <<>>)

\* the merged equation with the OE term appended instead of inserted at 0
G16V8MS_get_macrocell_eqns_OELast(fm, config) ==
    LET name == get_pin_name(config.pin)
        oe_terms == IF IsTermNonzero(fm, config.oe_fuses)
                    THEN CollectAndTerms(fm, config.oe_fuses)
                    ELSE [tag |-> "AND", items |-> <<>>]
        d_terms == DTerms(fm, config.terms_fuses)
    IN  IF fm[config.ac1_fuse] # 0
        THEN (IF oe_terms.items # <<>> THEN <<Eqn(name \o DotOE, oe_terms)>> ELSE <<>>)
             \o (IF d_terms # <<>> THEN <<Eqn(name, ORList(d_terms))>> ELSE <<>>)
        ELSE LET merged == IF oe_terms.items # <<>> THEN d_terms \o <<oe_terms>>
                           ELSE d_terms
             IN  IF merged # <<>> THEN <<Eqn(name \o DotD, ORList(merged))>> ELSE <<>>

G16V8MS_get_macrocell_eqns(fm, config) ==
    LET name == get_pin_name(config.pin)
        oe_terms == IF IsTermNonzero(fm, config.oe_fuses)
                    THEN CollectAndTerms(fm, config.oe_fuses)
                    ELSE [tag |-> "AND", items |-> <<>>]
        d_terms == DTerms(fm, config.terms_fuses)
    IN  IF fm[config.ac1_fuse] # 0
        THEN (IF oe_terms.items # <<>> THEN <<Eqn(name \o DotOE, oe_terms)>> ELSE <<>>)
             \o (IF d_terms # <<>> THEN <<Eqn(name, ORList(d_terms))>> ELSE <<>>)
        ELSE LET merged == IF oe_terms.items # <<>> THEN <<oe_terms>> \o d_terms
                           ELSE d_terms
             IN  IF merged # <<>> THEN <<Eqn(name \o DotD, ORList(merged))>> ELSE <<>>

\* the AC1 test left out
G16V8AS_get_macrocell_eqns_AnyAC1(fm, config) ==
    LET name == get_pin_name(config.pin)
        d_terms == RowTerms(fm, config.oe_fuses) \o DTerms(fm, config.terms_fuses)
    IN  IF d_terms # <<>> THEN <<Eqn(name, ORList(d_terms))>> ELSE <<>>

G16V8AS_get_macrocell_eqns(fm, config) ==
    IF Not(fm[config.ac1_fuse])
    THEN LET name == get_pin_name(config.pin)
             d_terms == RowTerms(fm, config.oe_fuses) \o DTerms(fm, config.terms_fuses)
         IN  IF d_terms # <<>> THEN <<Eqn(name, ORList(d_terms))>> ELSE <<>>
    ELSE <<>>

get_macrocell_eqns(dev, fm, config) ==
    IF dev = "P16L8" THEN P16L8_get_macrocell_eqns(fm, config)
    ELSE IF dev = "G16V8MA" THEN G16V8MA_get_macrocell_eqns(fm, config)
    ELSE IF dev = "G16V8MS" THEN G16V8MS_get_macrocell_eqns(fm, config)
    ELSE G16V8AS_get_macrocell_eqns(fm, config)

\* "Pin %d; AC1:%d; XOR:%d" as the list of its constant and inserted parts
get_macrocell_cmt(dev, fm, config) ==
    IF dev = "P16L8" THEN <<>>
    ELSE << <<"Pin ", config.pin, "; AC1:", fm[config.ac1_fuse],
              "; XOR:", fm[config.xor_fuse]>> >>

-----------------------------------------------------------------------------
(* Constructors.  The result is [err, device]; err is "ok" or the exception *)
(* raised: TypeError("incorrect device chosen"), or the IndexError of a     *)
(* fuse map too short to hold the fuse read.                                *)

SYN == 2192
AC0 == 2193

Built(dev) == [err |-> "ok", device |-> dev]
Raised(e) == [err |-> e, device |-> "none"]

\* "fusemap[a] != va or fusemap[b] != vb", left to right, then raise
ConfigCheck(fm, dev, va, vb) ==
    IF SYN \notin DOMAIN fm THEN Raised("IndexError")
    ELSE IF fm[SYN] # va THEN Raised("TypeError")
    ELSE IF AC0 \notin DOMAIN fm THEN Raised("IndexError")
    ELSE IF fm[AC0] # vb THEN Raised("TypeError")
    ELSE Built(dev)

P16L8_init(fm) == Built("P16L8")

\* the test of one fuse only
G16V8MA_init_SynOnly(fm) ==
    IF SYN \notin DOMAIN fm THEN Raised("IndexError")
    ELSE IF fm[SYN] # 1 THEN Raised("TypeError")
    ELSE Built("G16V8MA")

G16V8MA_init(fm) == ConfigCheck(fm, "G16V8MA", 1, 1)

G16V8MS_init(fm) == ConfigCheck(fm, "G16V8MS", 0, 1)

G16V8AS_init(fm) == ConfigCheck(fm, "G16V8AS", 1, 0)

\* the function G16V8: "a or b" reads b only when a is false
G16V8(fm) ==
    IF SYN \notin DOMAIN fm THEN Raised("IndexError")
    ELSE IF fm[SYN] = 1 THEN G16V8AS_init(fm)
    ELSE IF AC0 \notin DOMAIN fm THEN Raised("IndexError")
    ELSE IF fm[AC0] = 0 THEN G16V8AS_init(fm)
    ELSE IF fm[SYN] = 0 \/ fm[AC0] # 1 THEN G16V8MS_init(fm)
    ELSE IF fm[SYN] = 1 \/ fm[AC0] # 1 THEN G16V8MA_init(fm)
    ELSE Raised("TypeError")

DeviceNames ==
    {"G16V8", "GAL16V8", "G16V8AS", "G16V8MA", "G16V8MS", "PALCE16V8", "P16L8", "PAL16L8"}

device_type_map ==
    [n \in DeviceNames |->
        IF n \in {"G16V8", "GAL16V8", "PALCE16V8"} THEN "G16V8"
        ELSE IF n \in {"P16L8", "PAL16L8"} THEN "P16L8"
        ELSE n]

\* device_type(fusemap, pinmap)
Call(type, fm) ==
    IF type = "G16V8" THEN G16V8(fm)
    ELSE IF type = "G16V8AS" THEN G16V8AS_init(fm)
    ELSE IF type = "G16V8MA" THEN G16V8MA_init(fm)
    ELSE IF type = "G16V8MS" THEN G16V8MS_init(fm)
    ELSE P16L8_init(fm)

-----------------------------------------------------------------------------
(* CUPLPrinter.stringize_list: the literal positions replaced by their     *)
(* names, the nesting kept (the joining into one string is not modelled)   *)

stringize_list(value, names) ==
    IF value.tag = "AND" THEN [i \in 1..Len(value.items) |-> names[value.items[i] + 1]]
    ELSE [j \in 1..Len(value.items) |->
             [i \in 1..Len(value.items[j].items) |-> names[value.items[j].items[i] + 1]]]

-----------------------------------------------------------------------------
(* Writing a JEDEC file from its fields (the input generator) *)

QFField(n) == [op |-> "QF", n |-> n, data |-> <<>>, split |-> 0]
FField(d) == [op |-> "F", n |-> d, data |-> <<>>, split |-> 0]
QPField(n) == [op |-> "QP", n |-> n, data |-> <<>>, split |-> 0]
\* data: the digits; split > 0: a line break after that many digits
LField(pos, data, split) == [op |-> "L", n |-> pos, data |-> data, split |-> split]

RenderField(f) ==
    IF f.op = "L"
    THEN <<"L">> \o Dec(f.n) \o <<SP>>
         \o (IF f.split > 0 /\ f.split < Len(f.data)
             THEN SubSeq(f.data, 1, f.split) \o <<CR, LF>>
                  \o SubSeq(f.data, f.split + 1, Len(f.data))
             ELSE f.data)
    ELSE IF f.op = "QF" THEN <<"Q", "F">> \o Dec(f.n)
    ELSE IF f.op = "QP" THEN <<"Q", "P">> \o Dec(f.n)
    ELSE <<"F">> \o Dec(f.n)

RECURSIVE RenderFields(_)
RenderFields(s) ==
    IF s = <<>> THEN <<>>
    ELSE <<LF>> \o RenderField(Head(s)) \o <<STAR>> \o RenderFields(Tail(s))

\* STX, a header line, the fields, and ETX unless the file is cut short
RenderFile(s, complete) ==
    <<"STX", "J", STAR>> \o RenderFields(s) \o (IF complete THEN <<LF, ETX>> ELSE <<>>)

-----------------------------------------------------------------------------
(* Bounds *)

MaxFuses == 3
MaxL == 2
MaxWrites == 2

MaxInputLen == 4
MaxEofReads == 2

ParseAlphabet == {STAR, ETX, LF, SP, "L", "1"}

RECURSIVE SeqsUpTo(_, _)
SeqsUpTo(S, n) ==
    IF n = 0 THEN {<<>>}
    ELSE LET shorter == SeqsUpTo(S, n - 1)
         IN  shorter \cup {Append(s, x) : s \in {t \in shorter : Len(t) = n - 1}, x \in S}

-----------------------------------------------------------------------------
(* Specification of the tokenizer alone: every text up to MaxInputLen.     *)

IdleMain ==
    /\ fusemap = <<>> /\ status = "ok" /\ pc = "idle" /\ ctor = "none"
    /\ device = "none" /\ pin = 0 /\ cfg = 0 /\ eqns = <<>> /\ out = <<>>

IdleTerm == writes = 0 /\ termRes = <<>> /\ toggled = -1

InitParse ==
    /\ script = <<>>
    /\ input \in SeqsUpTo(ParseAlphabet, MaxInputLen)
    /\ tok = TokInit
    /\ cmds = <<>>
    /\ eofReads = 0
    /\ IdleMain
    /\ IdleTerm

\* one read in the preamble loop (lines 16-20)
ReadPreamble ==
    /\ tok.phase = "preamble"
    /\ LET s == TokStep(input, tok)
       IN  /\ tok' = s.tok
           /\ cmds' = cmds \o s.yield
           /\ eofReads' = IF FpRead(input, tok.pos) = EOFCH THEN eofReads + 1 ELSE eofReads
    /\ UNCHANGED <<script, input, mainVars, termVars>>

\* one read in the command loop (lines 21-31)
ReadCommand ==
    /\ tok.phase = "command"
    /\ eofReads < MaxEofReads
    /\ LET s == TokStep(input, tok)
       IN  /\ tok' = s.tok
           /\ cmds' = cmds \o s.yield
           /\ eofReads' = IF FpRead(input, tok.pos) = EOFCH THEN eofReads + 1 ELSE eofReads
    /\ UNCHANGED <<script, input, mainVars, termVars>>

NextParse == ReadPreamble \/ ReadCommand

SpecParse == InitParse /\ [][NextParse]_vars

\* the generator run step by step and the generator run command by command
\* yield the same commands
StepsAgreeWithCommands ==
    /\ tok.phase = "returned" =>
           JedecCommands(input) = [hang |-> FALSE, cmds |-> cmds]
    /\ (tok.phase = "command" /\ eofReads > 0) =>
           JedecCommands(input) = [hang |-> TRUE, cmds |-> cmds]

\* C3: the tokenizer never stays inside a command after reading the end of
\* the input (a truncated command stream must abort), and it never reads
\* past the end of the input a second time.
C3_TruncatedStreamAborts ==
    /\ (eofReads > 0 => tok.phase # "command")
    /\ eofReads <= 1

-----------------------------------------------------------------------------
(* main(), line 465: fusemap = read_jedec(jedec_path) *)

IdleParse == tok = TokInit /\ cmds = <<>> /\ eofReads = 0

ReadJedec ==
    /\ pc = "start"
    /\ LET r == LoadJedec(input)
       IN  /\ fusemap' = r.fusemap
           /\ status' = r.err
           /\ pc' = IF r.err = "ok" THEN "loaded"
                    ELSE IF r.err = "hang" THEN "hung" ELSE "raised"
    /\ UNCHANGED <<script, parseVars, ctor, device, pin, cfg, eqns, out, termVars>>

\* main(), lines 467-472: the device type looked up and called
Construct(name) ==
    /\ pc = "loaded"
    /\ IF name \notin DOMAIN device_type_map
       THEN /\ ctor' = "none" /\ device' = "none"
            /\ status' = "ValueError" /\ pc' = "raised"
       ELSE LET r == Call(device_type_map[name], fusemap)
            IN  /\ ctor' = device_type_map[name]
                /\ device' = r.device
                /\ status' = r.err
                /\ pc' = IF r.err = "ok" THEN "pins" ELSE "raised"
    /\ UNCHANGED <<script, parseVars, fusemap, pin, cfg, eqns, out, termVars>>

PinRecord(number, signal) == [kind |-> "pin", number |-> number, signal |-> signal]
CommentRecord(text) == [kind |-> "comment", text |-> text]
EqnRecord(e, names) ==
    [kind |-> "eqn", name |-> e.name, items |-> e.items,
     text |-> stringize_list(e.items, names)]
Blank == [kind |-> "blank"]

\* "for pin in range(1, device.pin_count+1)": the pin of the n-th iteration
PinOfStep(n) == n

\* generate_printout, lines 422-427: one iteration of the loop over the pins
PrintPin ==
    /\ pc = "pins"
    /\ pin < pin_count
    /\ pin' = pin + 1
    /\ LET p == PinOfStep(pin')
           name == get_pin_name(p)
       IN  out' = IF name # <<>>
                  THEN Append(out, PinRecord(p, IF is_out_inverted(device, fusemap, p)
                                                THEN inverted(name) ELSE name))
                  ELSE out
    /\ UNCHANGED <<script, parseVars, fusemap, status, pc, ctor, device, cfg, eqns, termVars>>

\* lines 428-430: the blank line after the pins; names = device.get_input_names()
EndPins ==
    /\ pc = "pins"
    /\ pin = pin_count
    /\ out' = Append(out, Blank)
    /\ pc' = "cells"
    /\ UNCHANGED <<script, parseVars, fusemap, status, ctor, device, pin, cfg, eqns, termVars>>

RECURSIVE MapSeq(_, _)
MapSeq(F(_), s) == IF s = <<>> THEN <<>> ELSE <<F(Head(s))>> \o MapSeq(F, Tail(s))

\* the comments printed whether or not the macrocell has equations
MacrocellRecordsAlwaysCmt(dev, fm, config) ==
    LET es == get_macrocell_eqns(dev, fm, config)
        names == get_input_names(dev, fm)
        eqnRec(e) == EqnRecord(e, names)
    IN  MapSeq(CommentRecord, get_macrocell_cmt(dev, fm, config))
        \o (IF es # <<>> THEN MapSeq(eqnRec, es) \o <<Blank>> ELSE <<>>)

\* lines 432-438: what one iteration of the loop over the macrocells prints
MacrocellRecords(dev, fm, config) ==
    LET es == get_macrocell_eqns(dev, fm, config)
        names == get_input_names(dev, fm)
        eqnRec(e) == EqnRecord(e, names)
    IN  IF es # <<>>
        THEN MapSeq(CommentRecord, get_macrocell_cmt(dev, fm, config))
             \o MapSeq(eqnRec, es) \o <<Blank>>
        ELSE <<>>

\* lines 431-438: one iteration of the loop over device.macrocell_config
PrintMacrocell ==
    /\ pc = "cells"
    /\ cfg < Len(macrocell_config(device))
    /\ cfg' = cfg + 1
    /\ eqns' = get_macrocell_eqns(device, fusemap, macrocell_config(device)[cfg'])
    /\ out' = out \o MacrocellRecords(device, fusemap, macrocell_config(device)[cfg'])
    /\ UNCHANGED <<script, parseVars, fusemap, status, pc, ctor, device, pin, termVars>>

\* generate_printout and main() return
Finish ==
    /\ pc = "cells"
    /\ cfg = Len(macrocell_config(device))
    /\ pc' = "done"
    /\ UNCHANGED <<script, parseVars, fusemap, status, ctor, device, pin, cfg, eqns, out,
                   termVars>>

-----------------------------------------------------------------------------
(* Specification of load_jedec: small fuse maps, every short field list.   *)

Bits == {<<"0">>, <<"1">>, <<"0", "1">>, <<"1", "0">>}

LoadLPool ==
    {LField(pos, data, 0) : pos \in 0..(MaxFuses - 1), data \in Bits}
        \cup {LField(0, <<"1", "0">>, 1)}

LoadFOpts == {<<>>, <<FField(0)>>, <<FField(1)>>}

LoadNVals == {MaxFuses - 1, MaxFuses}

\* QF first; QF last, after the L fields it sizes; an ignored field and F
\* after the L fields; no QF at all
LoadScript(shape, n, f, ls) ==
    IF shape = "QF first" THEN <<QFField(n)>> \o f \o ls
    ELSE IF shape = "QF last" THEN f \o ls \o <<QFField(n)>>
    ELSE IF shape = "F last" THEN <<QPField(20), QFField(n)>> \o ls \o f
    ELSE f \o ls

InitLoad ==
    /\ \E shape \in {"QF first", "QF last", "F last", "no QF"},
          n \in LoadNVals, f \in LoadFOpts, k \in 0..MaxL :
          \E ls \in [1..k -> LoadLPool], complete \in BOOLEAN :
              /\ shape = "no QF" => (k <= 1 /\ n = MaxFuses)
              /\ ~complete => k <= 1
              /\ script = LoadScript(shape, n, f, ls)
              /\ input = RenderFile(script, complete)
    /\ IdleParse
    /\ fusemap = <<>> /\ status = "ok" /\ pc = "start" /\ ctor = "none"
    /\ device = "none" /\ pin = 0 /\ cfg = 0 /\ eqns = <<>> /\ out = <<>>
    /\ IdleTerm

NextLoad == ReadJedec

SpecLoad == InitLoad /\ [][NextLoad]_vars

FieldIdx(s, op) == {i \in 1..Len(s) : s[i].op = op}

\* the file ends with ETX, so the command stream is complete
FileComplete(text) == text # <<>> /\ text[Len(text)] = ETX

\* the precondition of C1: one QF field, at most one F field, every L write inside [0, N)
DeclaredFuses(s) == s[CHOOSE i \in FieldIdx(s, "QF") : TRUE].n

WellFormedScript(s) ==
    /\ Cardinality(FieldIdx(s, "QF")) = 1
    /\ Cardinality(FieldIdx(s, "F")) <= 1
    /\ \A i \in FieldIdx(s, "L") : s[i].n + Len(s[i].data) <= DeclaredFuses(s)

DeclaredDefault(s) ==
    IF FieldIdx(s, "F") = {} THEN 0 ELSE s[CHOOSE i \in FieldIdx(s, "F") : TRUE].n

Covering(s, p) == {i \in FieldIdx(s, "L") : s[i].n <= p /\ p < s[i].n + Len(s[i].data)}

LastCovering(s, p) == CHOOSE i \in Covering(s, p) : \A j \in Covering(s, p) : j <= i

\* C1: for a complete file with one QF<N> and L writes inside [0, N), load_jedec
\* returns exactly N values; position p holds the digit of the LAST L field
\* covering p, or the default (the F digit, else 0) when none covers it.
C1_LastWriteWins ==
    (pc # "start" /\ WellFormedScript(script) /\ FileComplete(input)) =>
        /\ status = "ok"
        /\ DOMAIN fusemap = 0..(DeclaredFuses(script) - 1)
        /\ \A p \in 0..(DeclaredFuses(script) - 1) :
               fusemap[p] = IF Covering(script, p) = {} THEN DeclaredDefault(script)
                            ELSE LET f == script[LastCovering(script, p)]
                                 IN  DigitVal(f.data[p - f.n + 1])

\* two L fields write different digits to one position, and another position
\* keeps a declared default of 1
C1_Witness ==
    /\ pc = "loaded" /\ WellFormedScript(script) /\ FileComplete(input)
    /\ \E p \in DOMAIN fusemap : \E i, j \in Covering(script, p) :
           /\ i < j
           /\ script[i].data[p - script[i].n + 1] # script[j].data[p - script[j].n + 1]
    /\ \E p \in DOMAIN fusemap : Covering(script, p) = {} /\ fusemap[p] = 1

-----------------------------------------------------------------------------
(* Specification of the term decoder on one 32-fuse row: a row filled with  *)
(* one value, up to MaxWrites fuses written, is_term_nonzero applied, then  *)
(* one fuse changed from 0 to 1 and is_term_nonzero applied again.          *)

RowWidth == 32

Row == <<0, RowWidth>>

InitTerm ==
    /\ script = <<>> /\ input = <<>>
    /\ IdleParse
    /\ \E d \in {0, 1} : fusemap = [i \in 0..(RowWidth - 1) |-> d]
    /\ status = "ok" /\ pc = "row" /\ ctor = "none"
    /\ device = "none" /\ pin = 0 /\ cfg = 0 /\ eqns = <<>> /\ out = <<>>
    /\ IdleTerm

SetFuse(i, v) ==
    /\ pc = "row"
    /\ writes < MaxWrites
    /\ fusemap' = [fusemap EXCEPT ![i] = v]
    /\ writes' = writes + 1
    /\ UNCHANGED <<script, parseVars, status, pc, ctor, device, pin, cfg, eqns, out,
                   termRes, toggled>>

EvalRow ==
    /\ pc = "row"
    /\ termRes' = <<IsTermNonzero(fusemap, Row)>>
    /\ pc' = "evaluated"
    /\ UNCHANGED <<script, parseVars, fusemap, status, ctor, device, pin, cfg, eqns, out,
                   writes, toggled>>

ToggleFuse(i) ==
    /\ pc = "evaluated"
    /\ fusemap[i] = 0
    /\ fusemap' = [fusemap EXCEPT ![i] = 1]
    /\ termRes' = Append(termRes, IsTermNonzero(fusemap', Row))
    /\ toggled' = i
    /\ pc' = "toggled"
    /\ UNCHANGED <<script, parseVars, status, ctor, device, pin, cfg, eqns, out, writes>>

NextTerm ==
    \/ \E i \in 0..(RowWidth - 1), v \in {0, 1} : SetFuse(i, v)
    \/ EvalRow
    \/ \E i \in 0..(RowWidth - 1) : ToggleFuse(i)

SpecTerm == InitTerm /\ [][NextTerm]_vars

\* the row is_term_nonzero was first applied to
RowEvaluated == IF toggled = -1 THEN fusemap ELSE [fusemap EXCEPT ![toggled] = 0]

Columns == 0..((RowWidth \div 2) - 1)

ColumnZero(fm, c) == fm[2 * c] = 0 /\ fm[2 * c + 1] = 0

\* C5 as stated: the row is not live iff EVERY column has both fuses 0, and
\* changing one fuse of a not-live row to 1 makes the row live.
C5_FalseIffEveryColumnZero ==
    /\ termRes # <<>> =>
           (termRes[1] = FALSE <=> \A c \in Columns : ColumnZero(RowEvaluated, c))
    /\ (pc = "toggled" /\ termRes[1] = FALSE) => termRes[2] = TRUE

\* C5 amended: the row is not live iff SOME column has both fuses 0; when
\* exactly one column has, changing either fuse of it to 1 makes the row live.
C5_FalseIffSomeColumnZero ==
    /\ termRes # <<>> =>
           (termRes[1] = FALSE <=> \E c \in Columns : ColumnZero(RowEvaluated, c))
    /\ (/\ pc = "toggled"
        /\ termRes[1] = FALSE
        /\ Cardinality({c \in Columns : ColumnZero(RowEvaluated, c)}) = 1
        /\ ColumnZero(RowEvaluated, toggled \div 2)) => termRes[2] = TRUE

\* a row with one all-zero column, not live, made live by one fuse
C5_Witness ==
    /\ pc = "toggled"
    /\ termRes = <<FALSE, TRUE>>
    /\ ColumnZero(RowEvaluated, toggled \div 2)

-----------------------------------------------------------------------------
(* Specification of main(): JEDEC files laid out as an assembler writes    *)
(* them (QF, F, one L field per 32-fuse row, then the configuration        *)
(* fuses), disassembled as every device type.                              *)

RowOf(zeros) == [i \in 1..RowWidth |-> IF (i - 1) \in zeros THEN "0" ELSE "1"]

RowOnes == RowOf({})            \* live, no literal
RowDead == RowOf({0, 1})        \* column 0 has both fuses 0
RowA == RowOf({0})              \* literal 0
RowB == RowOf({1, 4})           \* literals 1 and 4
RowC == RowOf({2})              \* literal 2

Opt(S) == {<<>>} \cup {<<f>> : f \in S}

OESlot == Opt({LField(0, RowOnes, 0), LField(0, RowA, 0), LField(0, RowDead, 0)})
T1Slot == Opt({LField(32, RowA, 16), LField(32, RowB, 0), LField(32, RowDead, 0)})
T2Slot == Opt({LField(64, RowC, 0)})
Pin12Slot == Opt({LField(2016, RowA, 0)})
Ac1Slot == {<<LField(2120, <<"0">>, 0)>>, <<LField(2120, <<"1">>, 0)>>}
CfgSlot == {<<LField(SYN, <<a, b>>, 0)>> : a \in {"0", "1"}, b \in {"0", "1"}}

\* the shortest fuse maps that hold every fuse a GAL16V8 / a PAL16L8 device reads
GALFuses == AC0 + 1
PALFuses == P16L8_macrocell_config[8].terms_fuses[7][2]

GALScripts ==
    {<<QFField(GALFuses), FField(d)>> \o oe \o t1 \o t2 \o p12 \o ac1 \o c :
        d \in {0, 1}, oe \in OESlot, t1 \in T1Slot, t2 \in T2Slot,
        p12 \in Pin12Slot, ac1 \in Ac1Slot, c \in CfgSlot}

PALScripts ==
    {<<QFField(PALFuses), FField(d)>> \o oe \o t1 \o t2 \o p12 :
        d \in {0, 1}, oe \in OESlot, t1 \in T1Slot, t2 \in T2Slot, p12 \in Pin12Slot}

\* QF2048, F1 and one L field that sets fuses 0 and 33 to 0
ScenarioScript ==
    <<QFField(PALFuses), FField(1),
      LField(0, [i \in 1..34 |-> IF i \in {1, 34} THEN "0" ELSE "1"], 0)>>

DevScripts == GALScripts \cup PALScripts \cup {ScenarioScript}

InitDev ==
    /\ script \in DevScripts
    /\ input = RenderFile(script, TRUE)
    /\ IdleParse
    /\ fusemap = <<>> /\ status = "ok" /\ pc = "start" /\ ctor = "none"
    /\ device = "none" /\ pin = 0 /\ cfg = 0 /\ eqns = <<>> /\ out = <<>>
    /\ IdleTerm

NextDev ==
    \/ ReadJedec
    \/ \E name \in DeviceNames \cup {"P22V10"} : Construct(name)
    \/ PrintPin
    \/ EndPins
    \/ PrintMacrocell
    \/ Finish

SpecDev == InitDev /\ [][NextDev]_vars

-----------------------------------------------------------------------------
(* Device construction *)

Constructed == pc \in {"pins", "cells", "done"}

HasConfigFuses == SYN \in DOMAIN fusemap /\ AC0 \in DOMAIN fusemap

ConfigFuses == <<fusemap[SYN], fusemap[AC0]>>

GALVariants == {"G16V8AS", "G16V8MS", "G16V8MA"}

VariantPattern(dev) ==
    IF dev = "G16V8AS" THEN <<1, 0>>
    ELSE IF dev = "G16V8MS" THEN <<0, 1>>
    ELSE <<1, 1>>

\* C2: the selectors G16V8, GAL16V8 and PALCE16V8 call the function G16V8, and
\* it builds Simple for fuses (1,0), Registered for (0,1), Complex for (1,1),
\* and fails with the device-mismatch error for (0,0).
C2_AutoDetectByPattern ==
    /\ \A n \in {"G16V8", "GAL16V8", "PALCE16V8"} : device_type_map[n] = "G16V8"
    /\ (ctor = "G16V8" /\ HasConfigFuses) =>
           IF ConfigFuses = <<0, 0>>
           THEN status = "TypeError" /\ device = "none"
           ELSE /\ status = "ok"
                /\ device \in GALVariants
                /\ ConfigFuses = VariantPattern(device)

\* C4: G16V8AS, G16V8MS and G16V8MA are built iff fuses (2192, 2193) hold the
\* variant's pattern; otherwise the device-mismatch error is raised and
\* nothing is printed.  Every GAL device built, by whatever selector, has
\* the fuses of its variant.
C4_ExplicitVariantIffPattern ==
    /\ (ctor \in GALVariants /\ HasConfigFuses) =>
           IF ConfigFuses = VariantPattern(ctor)
           THEN status = "ok" /\ device = ctor /\ Constructed
           ELSE status = "TypeError" /\ device = "none" /\ pc = "raised" /\ out = <<>>
    /\ device \in GALVariants => ConfigFuses = VariantPattern(device)

\* Registered requested on fuses (1,0)
C4_Witness ==
    /\ ctor = "G16V8MS" /\ HasConfigFuses /\ ConfigFuses = <<1, 0>>
    /\ status = "TypeError" /\ pc = "raised"

-----------------------------------------------------------------------------
(* Equations of the macrocell handled last *)

CellHandled(dev) == device = dev /\ pc \in {"cells", "done"} /\ cfg >= 1

Cell == macrocell_config(device)[cfg]

CellName == PinLabel(Cell.pin)

AllRows(c) == <<c.oe_fuses>> \o c.terms_fuses

RowLive(r) == \A col \in Columns : ~ColumnZero([i \in 0..(RowWidth - 1) |-> fusemap[r[1] + i]], col)

RowLiterals(r) == {i \in 0..(RowWidth - 1) : fusemap[r[1] + i] = 0}

\* the AND-list of a row: its literals in ascending order
IsAndListOf(a, r) ==
    /\ a.tag = "AND"
    /\ {a.items[i] : i \in 1..Len(a.items)} = RowLiterals(r)
    /\ \A i, j \in 1..Len(a.items) : i < j => a.items[i] < a.items[j]

\* items lists, in order, the AND-lists of the rows of rs
IsOrListOf(items, rs) ==
    /\ items.tag = "OR"
    /\ Len(items.items) = Len(rs)
    /\ \A i \in 1..Len(rs) : IsAndListOf(items.items[i], rs[i])

LiveRows(rs) == SelectSeq(rs, RowLive)

LiveRowsWithLiterals(rs) == SelectSeq(rs, LAMBDA r : RowLive(r) /\ RowLiterals(r) # {})

\* C6 as stated: Simple mode, AC1 = 1: no equation; AC1 = 0: at most one
\* equation, under the plain pin name, the OR of the AND-lists of the OE row
\* (if live) and then of all live product-term rows in table order.
C6_SimpleAllLiveRows ==
    CellHandled("G16V8AS") =>
        IF fusemap[Cell.ac1_fuse] = 1 THEN eqns = <<>>
        ELSE /\ Len(eqns) <= 1
             /\ Len(eqns) = 1 =>
                    /\ eqns[1].name = CellName
                    /\ IsOrListOf(eqns[1].items, LiveRows(AllRows(Cell)))

\* C6 amended: as stated, for the live rows that have at least one literal
\* (a live row whose fuses are all 1 gives no term).
C6_SimpleLiveRowsWithLiterals ==
    CellHandled("G16V8AS") =>
        IF fusemap[Cell.ac1_fuse] = 1 THEN eqns = <<>>
        ELSE /\ Len(eqns) <= 1
             /\ Len(eqns) = 1 =>
                    /\ eqns[1].name = CellName
                    /\ IsOrListOf(eqns[1].items, LiveRowsWithLiterals(AllRows(Cell)))

\* Simple mode, AC1 = 0: the OE term, then two product terms, all different
C6_Witness ==
    /\ CellHandled("G16V8AS") /\ fusemap[Cell.ac1_fuse] = 0
    /\ Len(eqns) = 1 /\ Len(eqns[1].items.items) = 3
    /\ IsAndListOf(eqns[1].items.items[1], Cell.oe_fuses)
    /\ eqns[1].items.items[2] # eqns[1].items.items[3]

\* C7 as stated: Registered mode, AC1 = 1: an equation is ".oe" or plain,
\* ".oe" first, the plain one the OR of the live D-term rows; AC1 = 0: the
\* only equation is ".d", the OE row (if live) then the live D-term rows.
C7_RegisteredAllLiveRows ==
    CellHandled("G16V8MS") =>
        IF fusemap[Cell.ac1_fuse] = 1
        THEN /\ \A i \in 1..Len(eqns) : eqns[i].name \in {CellName \o DotOE, CellName}
             /\ \A i \in 1..Len(eqns) :
                    /\ eqns[i].name = CellName \o DotOE =>
                           i = 1 /\ IsAndListOf(eqns[i].items, Cell.oe_fuses)
                    /\ eqns[i].name = CellName =>
                           /\ i = Len(eqns)
                           /\ IsOrListOf(eqns[i].items, LiveRows(Cell.terms_fuses))
        ELSE /\ Len(eqns) <= 1
             /\ Len(eqns) = 1 =>
                    /\ eqns[1].name = CellName \o DotD
                    /\ IsOrListOf(eqns[1].items, LiveRows(AllRows(Cell)))

\* C7 amended: as stated, for the live rows that have at least one literal,
\* and an equation is emitted iff it has at least one term.
C7_RegisteredLiveRowsWithLiterals ==
    CellHandled("G16V8MS") =>
        LET oe == LiveRowsWithLiterals(<<Cell.oe_fuses>>)
            d == LiveRowsWithLiterals(Cell.terms_fuses)
        IN  IF fusemap[Cell.ac1_fuse] = 1
            THEN /\ Len(eqns) = Len(oe) + (IF d = <<>> THEN 0 ELSE 1)
                 /\ oe # <<>> =>
                        /\ eqns[1].name = CellName \o DotOE
                        /\ IsAndListOf(eqns[1].items, Cell.oe_fuses)
                 /\ d # <<>> =>
                        /\ eqns[Len(eqns)].name = CellName
                        /\ IsOrListOf(eqns[Len(eqns)].items, d)
            ELSE /\ Len(eqns) = (IF oe \o d = <<>> THEN 0 ELSE 1)
                 /\ oe \o d # <<>> =>
                        /\ eqns[1].name = CellName \o DotD
                        /\ IsOrListOf(eqns[1].items, oe \o d)

\* Registered mode, AC1 = 0: ".d" with the OE term first and D terms after it
C7_Witness ==
    /\ CellHandled("G16V8MS") /\ fusemap[Cell.ac1_fuse] = 0
    /\ Len(eqns) = 1 /\ eqns[1].name = CellName \o DotD
    /\ Len(eqns[1].items.items) = 3
    /\ IsAndListOf(eqns[1].items.items[1], Cell.oe_fuses)
    /\ eqns[1].items.items[1] # eqns[1].items.items[2]

-----------------------------------------------------------------------------
(* Output polarity *)

MacrocellPins == 12..19

\* the fuses of the macrocell of pin p, counted from the macrocell of pin 19
OEFusesOf(p) == <<256 * (19 - p), 256 * (19 - p) + RowWidth>>
XorFuseOf(p) == 2048 + (19 - p)
Ac1FuseOf(p) == 2120 + (19 - p)

InversionRule(dev, p) ==
    /\ p \in MacrocellPins
    /\ IF dev = "P16L8" THEN RowLive(OEFusesOf(p))
       ELSE IF dev = "G16V8MA" THEN RowLive(OEFusesOf(p)) /\ fusemap[XorFuseOf(p)] = 0
       ELSE fusemap[Ac1FuseOf(p)] = 0 /\ fusemap[XorFuseOf(p)] = 0

\* C8: for every pin 1..20, is_out_inverted is: PAL16L8, the OE row is live;
\* Complex, the OE row is live and XOR = 0; Registered and Simple, AC1 = 0
\* and XOR = 0; false for the pins 1-11 and 20, which have no macrocell.  A
\* pin is declared under its inverted name exactly when it holds.
C8_OutputInversion ==
    Constructed =>
        /\ \A p \in 1..pin_count :
               is_out_inverted(device, fusemap, p) = InversionRule(device, p)
        /\ \A i \in 1..Len(out) :
               out[i].kind = "pin" =>
                   out[i].signal = IF InversionRule(device, out[i].number)
                                   THEN <<"!">> \o PinLabel(out[i].number)
                                   ELSE PinLabel(out[i].number)

\* Complex mode: pin 19 declared inverted, pin 18 (OE row not live) and pin
\* 20 (no macrocell) declared plain
C8_Witness ==
    /\ pc = "done" /\ device = "G16V8MA"
    /\ out[19].signal = <<"!">> \o PinLabel(19)
    /\ out[18].signal = PinLabel(18)
    /\ out[20].signal = PinLabel(20)

-----------------------------------------------------------------------------
(* The PAL16L8 scenario: QF2048, F1, one L field clearing fuses 0 and 33 *)

ScenarioHandled ==
    script = ScenarioScript /\ device = "P16L8" /\ pc \in {"cells", "done"} /\ cfg = 1

AndList(items) == [tag |-> "AND", items |-> items]

\* the records printed after the pin declarations and the blank line
CellRecords == SubSeq(out, pin_count + 2, Len(out))

\* C9 as stated: the macrocell of pin 19 yields exactly one equation, named
\* for pin 19, an OR of one AND term of one literal, which resolves to the
\* true name of the first input column.
C9_ScenarioOneEquation ==
    ScenarioHandled =>
        /\ Len(eqns) = 1
        /\ eqns[1].name = PinLabel(19)
        /\ eqns[1].items.tag = "OR"
        /\ Len(eqns[1].items.items) = 1
        /\ Len(eqns[1].items.items[1].items) = 1
        /\ get_input_names(device, fusemap)[eqns[1].items.items[1].items[1] + 1]
               = get_pin_name(P16L8_input_pins[1])

\* C9 amended: the fuse map has 2048 fuses, all 1 but fuses 0 and 33; the
\* macrocell of pin 19 yields exactly two equations: "PIN19.oe", the AND
\* term of literal 0 (fuse 0 is in the OE row), the true name of the first
\* input column, then "PIN19", an OR of one AND term of one literal, literal
\* 1 (fuse 33 is the second fuse of the first term row), the negated name of
\* the first input column; all-ones rows contribute no term.
C9_ScenarioTwoEquations ==
    ScenarioHandled =>
        /\ DOMAIN fusemap = 0..(PALFuses - 1)
        /\ {i \in DOMAIN fusemap : fusemap[i] = 0} = {0, 33}
        /\ eqns = << Eqn(PinLabel(19) \o DotOE, AndList(<<0>>)),
                     Eqn(PinLabel(19), ORList(<<AndList(<<1>>)>>)) >>
        /\ Len(CellRecords) = 3
        /\ CellRecords[1].kind = "eqn" /\ CellRecords[1].name = PinLabel(19) \o DotOE
        /\ CellRecords[1].text = <<PinLabel(2)>>
        /\ CellRecords[2].kind = "eqn" /\ CellRecords[2].name = PinLabel(19)
        /\ CellRecords[2].text = << <<(<<"!">> \o PinLabel(2))>> >>
        /\ CellRecords[3].kind = "blank"

C9_Witness == ScenarioHandled /\ status = "ok" /\ Len(eqns) = 2

-----------------------------------------------------------------------------
(* Order of the records *)

IsCellRecord(r) == r.kind \in {"comment", "eqn"}

\* the table index of the macrocell a comment or an equation belongs to
CellIndexOf(r) ==
    LET t == macrocell_config(device)
    IN  CHOOSE k \in 1..Len(t) :
            IF r.kind = "comment" THEN r.text[2] = t[k].pin
            ELSE StartsWith(r.name, PinLabel(t[k].pin))

\* for each record, the table index of its macrocell, 0 for the others
CellIndexes ==
    [i \in 1..Len(out) |-> IF IsCellRecord(out[i]) THEN CellIndexOf(out[i]) ELSE 0]

Positions(idx, k, kinds) ==
    SelectSeq([i \in 1..Len(out) |-> i], LAMBDA i : idx[i] = k /\ out[i].kind \in kinds)

RecordsOfCell(k) ==
    LET ps == Positions(CellIndexes, k, {"comment", "eqn"})
    IN  [i \in 1..Len(ps) |-> out[ps[i]]]

CellEqns(k) == get_macrocell_eqns(device, fusemap, macrocell_config(device)[k])

\* C10: the pin declarations come first, pins 1..20 ascending, before any
\* comment or equation; the macrocells follow in table order (pins 19..12);
\* a macrocell without equations prints nothing; the comments of a macrocell
\* precede its equations, which keep the order of get_macrocell_eqns.
C10_RecordOrder ==
    Constructed =>
        LET idx == CellIndexes
            t == macrocell_config(device)
        IN  /\ \A i \in 1..Len(out) :
                   IF i <= pin_count THEN out[i] = PinRecord(i, out[i].signal)
                   ELSE out[i].kind # "pin"
            /\ pc # "pins" => Len(out) > pin_count
            /\ \A i, j \in (pin_count + 1)..Len(out) :
                   (i < j /\ idx[i] # 0 /\ idx[j] # 0) =>
                       /\ idx[i] <= idx[j]
                       /\ t[idx[i]].pin >= t[idx[j]].pin
                       /\ (idx[i] = idx[j] /\ out[i].kind = "eqn") => out[j].kind = "eqn"
            /\ \A k \in 1..Len(t) :
                   LET es == Positions(idx, k, {"eqn"})
                       cs == Positions(idx, k, {"comment"})
                   IN  IF k <= cfg
                       THEN /\ [i \in 1..Len(es) |-> Eqn(out[es[i]].name, out[es[i]].items)]
                                = CellEqns(k)
                            /\ [i \in 1..Len(cs) |-> out[cs[i]].text]
                                   = (IF es = <<>> THEN <<>>
                                      ELSE get_macrocell_cmt(device, fusemap, t[k]))
                       ELSE es = <<>> /\ cs = <<>>

\* a GAL printout with comments, equations of the first and of the last
\* macrocell, two equations in one macrocell, and macrocells without any
C10_Witness ==
    /\ pc = "done" /\ device = "G16V8MS"
    /\ Len(RecordsOfCell(1)) = 3
    /\ RecordsOfCell(8) # <<>>
    /\ RecordsOfCell(2) = <<>>

====
